---------------------------- MODULE Spec2Model ----------------------------
(***************************************************************************)
(* A model of q_transformer/q_robotic_transformer.py.                      *)
(*                                                                         *)
(* Tensors are modelled exactly in their index structure (which position,  *)
(* slot and bin a value is read from or written to) and over the integers  *)
(* in their values.  Conventions:                                          *)
(*   - a token is a vector, a sequence of Dim integers;                    *)
(*   - sequence positions and action slots are 1-based here: position p    *)
(*     is index p-1 of the code, slot s is action_idx s-1 of the code;     *)
(*   - action bins keep the code's numbering 0 .. action_bins-1;           *)
(*   - a mean over k values is kept as a numerator over the denominator k, *)
(*     so no rounding is introduced;                                       *)
(*   - learned weights are drawn from a small family indexed by `seed';    *)
(*   - softmax attention weights are learned and positive: a query's       *)
(*     output is modelled as the sum of the values of the keys it is       *)
(*     allowed to see, so what is kept is WHICH keys reach which query.    *)
(***************************************************************************)
EXTENDS Integers, Sequences, FiniteSets, TLC

(***************************************************************************)
(* Bounds of the model                                                     *)
(***************************************************************************)
MaxActions == 2
MaxBatch   == 2
Dim        == 2

\* the values of action_bins that are tried
BinChoices == {1, 3}

(***************************************************************************)
(* Program constants                                                       *)
(***************************************************************************)
DefaultNumActions == 8
DefaultNumMemKV   == 4
DefaultAttnDepth  == 2

(***************************************************************************)
(* helpers                                                                 *)
(***************************************************************************)
\* a function over 1..n as a tuple, its elements evaluated once
AsSeq(f) == f \o <<>>

\* a function over the bins 0..n-1, its elements evaluated once
AsFn(f) == f @@ <<>>

RECURSIVE SumSeq(_)
SumSeq(s) == IF s = <<>> THEN 0 ELSE Head(s) + SumSeq(Tail(s))

Min(a, b) == IF a <= b THEN a ELSE b

Max(a, b) == IF a >= b THEN a ELSE b

ZeroVec == AsSeq([c \in 1..Dim |-> 0])

VAdd(u, v) == AsSeq([c \in 1..Dim |-> u[c] + v[c]])

RECURSIVE VSum(_)
VSum(s) == IF s = <<>> THEN ZeroVec ELSE VAdd(Head(s), VSum(Tail(s)))

\* einsum '... d, ... d -> ...'
Dot(u, v) == SumSeq([c \in 1..Dim |-> u[c] * v[c]])

\* x[:, :n] along the sequence axis
Take(s, n) == SubSeq(s, 1, Min(n, Len(s)))

\* nn.LayerNorm over the last axis: the mean is removed from every
\* coordinate (values are kept times Dim; the positive rescaling by
\* 1/sqrt(var) is left out)
LayerNorm(v) == AsSeq([c \in 1..Dim |-> Dim * v[c] - SumSeq(v)])

\* .sigmoid(): monotone, into [0, 1]; values are in units of 1/SigScale
SigScale == 8

SigRange == 16

Sigmoid(x) == Max(0, Min(SigScale, ((x + SigRange) * SigScale) \div (2 * SigRange)))

(***************************************************************************)
(* Learned parameters, a small family indexed by seed                      *)
(***************************************************************************)
Seeds == {1, 2}

ParamVal(seed, i, j, c) == ((seed * (7 * i + 3 * j + 5 * c) + i * j + c) % 5) - 2

\* self.action_bin_embeddings : (num_actions, action_bins, dim)
action_bin_embeddings(seed, slot, bin) ==
    AsSeq([c \in 1..Dim |-> ParamVal(seed, slot, bin, c)])

\* self.to_values : (num_actions, dim)
to_values(seed, slot) == AsSeq([c \in 1..Dim |-> ParamVal(seed + 1, slot, 11, c)])

\* self.mem_kv values of a TransformerAttention : (num_mem_kv, dim_head)
mem_kv(seed, m) == AsSeq([c \in 1..Dim |-> ParamVal(seed + 2, m, 13, c)])


(***************************************************************************)
(* Attend, TransformerAttention, FeedForward, Transformer                  *)
(***************************************************************************)
\* Attend(causal = ...): may query i (of q_len) see key j (of k_len)?  The
\* causal mask is aligned to the last key, so keys put in front of the
\* sequence are seen by every query.
AttendSees(i, j, q_len, k_len, causal) == (~causal) \/ (j - i <= k_len - q_len)

\* Attend.forward: every query aggregates the values of the keys it sees
Attend(q_len, v, causal) ==
    AsSeq([i \in 1..q_len |->
        VSum([j \in 1..Len(v) |->
                IF AttendSees(i, j, q_len, Len(v), causal) THEN v[j] ELSE ZeroVec])])

\* variant: the memory key / values are concatenated behind the sequence
TransformerAttention_MemBehind(seed, x, causal) ==
    LET mv == AsSeq([m \in 1..DefaultNumMemKV |-> mem_kv(seed, m)])
        v  == x \o mv
    IN  Attend(Len(x), v, causal)

\* TransformerAttention.forward without context, mask or cond_fn: the memory
\* key / values are concatenated in front of the sequence's own, then attend
TransformerAttention(seed, x, causal) ==
    LET mv == AsSeq([m \in 1..DefaultNumMemKV |-> mem_kv(seed, m)])
        v  == mv \o x
    IN  Attend(Len(x), v, causal)

\* FeedForward.forward without cond_fn: token-wise, norm then net
FeedForward(x) ==
    AsSeq([i \in 1..Len(x) |->
              LET h == LayerNorm(x[i]) IN AsSeq([c \in 1..Dim |-> h[Dim + 1 - c]])])

\* Transformer.forward: depth times  x = attn(x) + x ; x = ff(x) + x
RECURSIVE Transformer(_, _, _, _)
Transformer(seed, x, causal, depth) ==
    IF depth = 0 THEN x
    ELSE LET a  == TransformerAttention(seed, x, causal)
             x1 == AsSeq([i \in 1..Len(x) |-> VAdd(a[i], x[i])])
             f  == FeedForward(x1)
             x2 == AsSeq([i \in 1..Len(x) |-> VAdd(f[i], x1[i])])
         IN  Transformer(seed, x2, causal, depth - 1)

(***************************************************************************)
(* QHeadMultipleActions                                                    *)
(***************************************************************************)
\* reduce(encoded_state, 'b ... d -> b 1 d', 'mean') for one batch element,
\* kept times the number of tokens
SosToken(enc) == VSum(enc)

\* self.transformer (causal = True) followed by self.final_norm
HeadEmbed(seed, tokens) ==
    LET e == Transformer(seed, tokens, TRUE, DefaultAttnDepth)
    IN  AsSeq([i \in 1..Len(tokens) |-> LayerNorm(e[i])])

\* variant: the bin tables are taken in the reverse order of the slots
Advantages_SlotsReversed(seed, embed, bins) ==
    AsSeq([s \in 1..Len(embed) |->
        AsFn([a \in 0..(bins - 1) |->
            Dot(embed[s], action_bin_embeddings(seed, Len(embed) + 1 - s, a))])])

\* einsum('b n d, n a d -> b n a', embed, action_bin_embeddings[:num_actions])
Advantages(seed, embed, bins) ==
    AsSeq([s \in 1..Len(embed) |->
        AsFn([a \in 0..(bins - 1) |-> Dot(embed[s], action_bin_embeddings(seed, s, a))])])

\* einsum('b n d, n d -> b n', embed, self.to_values[:num_actions])
Values(seed, embed) == AsSeq([s \in 1..Len(embed) |-> Dot(embed[s], to_values(seed, s))])

\* the sum behind reduce(advantages, '... a -> ... 1', 'mean')
BinSum(row, bins) == SumSeq([a \in 1..bins |-> row[a - 1]])

\* get_q_values before the sigmoid, one batch element; numerators over the
\* denominator QDen
QDen(dueling, bins) == IF dueling THEN bins ELSE 1

\* variant: the advantages are not centred
PreQValues_NotCentred(seed, embed, bins, dueling) ==
    LET adv == Advantages(seed, embed, bins)
        val == Values(seed, embed)
    IN  AsSeq([s \in 1..Len(embed) |->
            AsFn([a \in 0..(bins - 1) |->
                IF dueling THEN bins * val[s] + bins * adv[s][a] ELSE adv[s][a]])])

PreQValues(seed, embed, bins, dueling) ==
    LET adv == Advantages(seed, embed, bins)
        val == Values(seed, embed)
    IN  AsSeq([s \in 1..Len(embed) |->
            AsFn([a \in 0..(bins - 1) |->
                IF dueling
                THEN bins * val[s] + (bins * adv[s][a] - BinSum(adv[s], bins))
                ELSE adv[s][a]])])

\* sigmoid of num / den
SigmoidOf(num, den) == Sigmoid(IF num >= 0 THEN num \div den ELSE -((-num) \div den))

\* QHeadMultipleActions.get_q_values, one batch element
get_q_values(seed, embed, bins, dueling) ==
    LET pre == PreQValues(seed, embed, bins, dueling)
    IN  AsSeq([s \in 1..Len(embed) |->
            AsFn([a \in 0..(bins - 1) |-> SigmoidOf(pre[s][a], QDen(dueling, bins))])])

\* variant: the token sequence is not cut to num_actions positions
ForwardTokens_NotCut(seed, n, enc, has_actions, row) ==
    IF has_actions
    THEN <<SosToken(enc)>> \o
         [i \in 1..Len(row) |-> action_bin_embeddings(seed, i, row[i])]
    ELSE <<SosToken(enc)>>

\* QHeadMultipleActions.forward, the transformer input of one batch element:
\* sos token, then the embedding of actions[:, i] from slot i's table, cut
\* to num_actions positions
ForwardTokens(seed, n, enc, has_actions, row) ==
    IF has_actions
    THEN Take(<<SosToken(enc)>> \o
              [i \in 1..Len(row) |-> action_bin_embeddings(seed, i, row[i])], n)
    ELSE <<SosToken(enc)>>

\* q_values.argmax(dim = -1): the first maximal bin
ArgMax(f, bins) ==
    CHOOSE a \in 0..(bins - 1) :
        /\ \A a2 \in 0..(bins - 1) : f[a2] <= f[a]
        /\ \A a2 \in 0..(bins - 1) : a2 < a => f[a2] < f[a]

\* variant: every iteration reads the bin table of the first slot
StepQValues_FirstTable(seed, emb, slot, bins) ==
    [a \in 0..(bins - 1) |-> Dot(emb[slot], action_bin_embeddings(seed, 1, a))]

\* get_optimal_actions, the body of one iteration for one batch element:
\* einsum('b d, a d -> b a', embed[:, action_idx], action_bin_embeddings[action_idx])
StepQValues(seed, emb, slot, bins) ==
    [a \in 0..(bins - 1) |-> Dot(emb[slot], action_bin_embeddings(seed, slot, a))]

(***************************************************************************)
(* QHeadSingleAction and DuelingHead                                       *)
(***************************************************************************)
\* weights and biases of the Linear layers of the single-action head
LinearW(seed, k, a) == AsSeq([c \in 1..Dim |-> ParamVal(seed + 3 + k, a + 1, 17, c)])

LinearB(seed, k, a) == ParamVal(seed + 3 + k, a + 1, 19, 0)

\* Reduce('b (f n) d -> b d', 'mean'), kept times the number of tokens
Pooled(enc) == VSum(enc)

\* DuelingHead.stem: Linear then SiLU, token-wise
Stem(seed, x) == AsSeq([c \in 1..Dim |-> x[c] + LinearB(seed, 0, c)])

\* DuelingHead.forward before the sigmoid: numerators over the denominator bins
DuelingPre(seed, x, bins) ==
    LET h      == Stem(seed, x)
        adv    == [a \in 0..(bins - 1) |-> Dot(LinearW(seed, 1, a), h) + LinearB(seed, 1, a)]
        values == Dot(LinearW(seed, 2, 0), h) + LinearB(seed, 2, 0)
    IN  [a \in 0..(bins - 1) |-> bins * values + (bins * adv[a] - BinSum(adv, bins))]

\* QHeadSingleAction.to_q_values before the sigmoid
SinglePre(seed, enc, bins, dueling) ==
    IF dueling
    THEN DuelingPre(seed, Pooled(enc), bins)
    ELSE LET h == LayerNorm(Pooled(enc))
         IN  [a \in 0..(bins - 1) |-> Dot(LinearW(seed, 3, a), h) + LinearB(seed, 3, a)]

\* QHeadSingleAction.forward, one batch element
SingleForward(seed, enc, bins, dueling) ==
    LET pre == SinglePre(seed, enc, bins, dueling)
    IN  [a \in 0..(bins - 1) |-> SigmoidOf(pre[a], QDen(dueling, bins))]

(***************************************************************************)
(* Attributes that exist on the head objects (set in __init__, or defined  *)
(* as a property whose body evaluates)                                     *)
(***************************************************************************)
QHeadSingleActionAttrs == {"action_bins", "to_q_values"}

QHeadMultipleActionsAttrs ==
    {"num_actions", "action_bins", "action_bin_embeddings", "transformer",
     "final_norm", "dueling", "to_values"}

\* QHeadMultipleActions.device reads self.action_embeddings
MultiDeviceReads == "action_embeddings"

\* does evaluating self.device on the head succeed?
HeadHasDevice(single) ==
    IF single THEN "device" \in QHeadSingleActionAttrs
    ELSE MultiDeviceReads \in QHeadMultipleActionsAttrs

(***************************************************************************)
(* Inputs                                                                  *)
(***************************************************************************)
Tok(k) == AsSeq([c \in 1..Dim |-> ((k + c) % 3) - 1])

\* the encoded state of one batch element: a few tokens
EncState(k) == <<Tok(k), Tok(k + 1)>>

\* the encoded states of a batch: every batch element has its own
EncBatch(batch) == AsSeq([b \in 1..batch |-> EncState(b)])

\* an actions tensor: the row of the first batch element is free, the
\* others are shifted copies
ActionsBatch(row, batch, bins) ==
    [b \in 1..batch |-> [i \in 1..Len(row) |-> (row[i] + b - 1) % bins]]

Rows(k, bins) == [1..k -> 0..(bins - 1)]

(***************************************************************************)
(* State                                                                   *)
(***************************************************************************)
VARIABLES
    seed,          \* which member of the parameter family the model holds
    model,         \* the constructed object and its configuration
    pc,            \* "new", "failed", "idle", "decode", "done"
    call,          \* the call in progress or just finished, with its inputs
    head_inputs,   \* get_optimal_actions: head_inputs, per batch element
    action_idx,    \* get_optimal_actions: iterations completed
    action_bins,   \* get_optimal_actions: the list action_bins, per batch element
    embed,         \* get_optimal_actions: embed of the last iteration
    ret,           \* what the call returned or raised, with the locals
                   \* (tokens, embed, pre-sigmoid values) it held on return
    tl,            \* a TokenLearner and the forward call running on it
    rp,            \* a windowed Attention's relative position buffers
    ctor,          \* a QRoboticTransformer under construction
    es,            \* a call of encode_state and the modules it runs through
    bn             \* the process group, the cache of get_is_distributed and
                   \* the calls of MaybeSyncBatchnorm2d

\* the state of the Q heads and of the calls on them
qvars == <<seed, model, pc, call, head_inputs, action_idx, action_bins, embed, ret>>

vars == <<qvars, tl, rp, ctor, es, bn>>

\* the components a call on the Q heads does not touch
notQ == <<tl, rp, ctor, es, bn>>

\* the values of the components that are not in use
TLIdle == [pc |-> "unused"]

RPIdle == [pc |-> "unused"]

CtorIdle == [pc |-> "unused"]

ESIdle == [pc |-> "unused"]

BNIdle == [pc |-> "unused"]

QIdle ==
    /\ seed = 0
    /\ model = [kind |-> "unused"]
    /\ pc = "unused"
    /\ call = <<>>
    /\ head_inputs = <<>>
    /\ action_idx = 0
    /\ action_bins = <<>>
    /\ embed = <<>>
    /\ ret = <<>>

NoModel ==
    [kind |-> "none", num_actions |-> 0, action_bins |-> 0, dueling |-> FALSE,
     is_single_action |-> FALSE, head_num_actions |-> 0]

NoCall ==
    [op |-> "none", batch |-> 0, enc |-> <<>>, has_actions |-> FALSE,
     actions |-> <<>>, return_q_values |-> FALSE, p |-> 0, u |-> 0]

NoRet ==
    [status |-> "none", shape |-> <<>>, q_values |-> <<>>, q_pre |-> <<>>,
     tokens |-> <<>>, embed |-> <<>>, bins |-> <<>>]

Raise(e) == [NoRet EXCEPT !.status = e]

NoLoop ==
    /\ head_inputs' = <<>>
    /\ action_idx' = 0
    /\ action_bins' = <<>>
    /\ embed' = <<>>

Init ==
    /\ seed \in Seeds
    /\ model = NoModel
    /\ pc = "new"
    /\ call = NoCall
    /\ head_inputs = <<>>
    /\ action_idx = 0
    /\ action_bins = <<>>
    /\ embed = <<>>
    /\ ret = NoRet
    /\ tl = TLIdle
    /\ rp = RPIdle
    /\ ctor = CtorIdle
    /\ es = ESIdle
    /\ bn = BNIdle

(***************************************************************************)
(* Construction                                                            *)
(***************************************************************************)
\* QRoboticTransformer.__init__, the part that sets up the actions and the
\* Q head.  The multi-action head is built without num_actions, so it keeps
\* its default.
QRoboticTransformerInit(num_actions, bins, dueling) ==
    /\ pc = "new"
    /\ IF num_actions >= 1
       THEN /\ model' = [kind |-> "qrt", num_actions |-> num_actions,
                         action_bins |-> bins, dueling |-> dueling,
                         is_single_action |-> (num_actions = 1),
                         head_num_actions |->
                            IF num_actions = 1 THEN 1 ELSE DefaultNumActions]
            /\ pc' = "idle"
       ELSE /\ model' = NoModel
            /\ pc' = "failed"
    /\ UNCHANGED <<seed, call, head_inputs, action_idx, action_bins, embed, ret>>
    /\ UNCHANGED notQ

\* QHeadMultipleActions.__init__, the head built on its own
QHeadMultipleActionsInit(num_actions, bins, dueling) ==
    /\ pc = "new"
    /\ model' = [kind |-> "head", num_actions |-> num_actions,
                 action_bins |-> bins, dueling |-> dueling,
                 is_single_action |-> FALSE, head_num_actions |-> num_actions]
    /\ pc' = "idle"
    /\ UNCHANGED <<seed, call, head_inputs, action_idx, action_bins, embed, ret>>
    /\ UNCHANGED notQ

(***************************************************************************)
(* forward                                                                 *)
(***************************************************************************)
\* QHeadMultipleActions.forward on a batch
MultiForward(c) ==
    LET n   == model.head_num_actions
        A   == model.action_bins
        tk  == AsSeq([b \in 1..c.batch |->
                   ForwardTokens(seed, n, c.enc[b], c.has_actions,
                                 IF c.has_actions THEN c.actions[b] ELSE <<>>)])
        emb == AsSeq([b \in 1..c.batch |-> HeadEmbed(seed, tk[b])])
    IN  IF c.has_actions /\ Len(c.actions[1]) > n
        THEN Raise("RuntimeError")   \* gather: more index rows than tables
        ELSE [status   |-> "ok",
              shape    |-> <<c.batch, Len(emb[1]), A>>,
              q_values |-> [b \in 1..c.batch |-> get_q_values(seed, emb[b], A, model.dueling)],
              q_pre    |-> [b \in 1..c.batch |-> PreQValues(seed, emb[b], A, model.dueling)],
              tokens   |-> tk,
              embed    |-> emb,
              bins     |-> <<>>]

\* QHeadSingleAction.forward on a batch
SingleHeadForward(c) ==
    [status   |-> "ok",
     shape    |-> <<c.batch, model.action_bins>>,
     q_values |-> [b \in 1..c.batch |->
                      SingleForward(seed, c.enc[b], model.action_bins, model.dueling)],
     q_pre    |-> [b \in 1..c.batch |->
                      SinglePre(seed, c.enc[b], model.action_bins, model.dueling)],
     tokens   |-> <<>>,
     embed    |-> <<>>,
     bins     |-> <<>>]

\* variant: the single-action branch does not check actions
ForwardResult_NoAssert(c) ==
    IF model.is_single_action THEN SingleHeadForward(c) ELSE MultiForward(c)

\* QRoboticTransformer.forward after encode_state, or the head's forward
ForwardResult(c) ==
    IF model.is_single_action
    THEN IF c.has_actions THEN Raise("AssertionError") ELSE SingleHeadForward(c)
    ELSE MultiForward(c)

NewCall(op, batch) ==
    [NoCall EXCEPT !.op = op, !.batch = batch, !.enc = EncBatch(batch)]

\* forward(video) / forward(encoded_state)
ForwardNoActions(batch) ==
    /\ pc = "idle"
    /\ LET c == NewCall("forward", batch)
       IN  /\ call' = c
           /\ ret' = ForwardResult(c)
    /\ pc' = "done"
    /\ NoLoop
    /\ UNCHANGED <<seed, model>>
    /\ UNCHANGED notQ

\* forward(video, actions = ...) / forward(encoded_state, actions = ...)
ForwardActions(batch, row) ==
    /\ pc = "idle"
    /\ LET c == [NewCall("forward", batch) EXCEPT
                    !.has_actions = TRUE,
                    !.actions = ActionsBatch(row, batch, model.action_bins)]
       IN  /\ call' = c
           /\ ret' = ForwardResult(c)
    /\ pc' = "done"
    /\ NoLoop
    /\ UNCHANGED <<seed, model>>
    /\ UNCHANGED notQ

(***************************************************************************)
(* get_random_actions, get_optimal_actions, get_actions                    *)
(***************************************************************************)
\* the tensors torch.randint(0, action_bins, size) can return
RandomTensors(batch) ==
    IF model.is_single_action
    THEN [1..batch -> 0..(model.action_bins - 1)]
    ELSE [1..batch -> [1..model.head_num_actions -> 0..(model.action_bins - 1)]]

\* q_head.get_random_actions(batch_size): the size and self.device are
\* evaluated, then torch.randint draws
RandomResult(batch) ==
    IF HeadHasDevice(model.is_single_action)
    THEN \E t \in RandomTensors(batch) :
            ret' = [NoRet EXCEPT
                      !.status = "ok",
                      !.shape = IF model.is_single_action THEN <<batch>>
                                ELSE <<batch, model.head_num_actions>>,
                      !.bins = t]
    ELSE ret' = Raise("AttributeError")

\* QHeadSingleAction.get_optimal_actions on a batch
SingleOptimal(c) ==
    LET q   == AsSeq([b \in 1..c.batch |->
                  SingleForward(seed, c.enc[b], model.action_bins, model.dueling)])
        sel == AsSeq([b \in 1..c.batch |-> ArgMax(q[b], model.action_bins)])
    IN  [NoRet EXCEPT
            !.status = "ok",
            !.shape = <<c.batch>>,
            !.bins = sel,
            !.q_values = IF c.return_q_values
                         THEN [b \in 1..c.batch |-> q[b][sel[b]]] ELSE <<>>]

\* q_head.get_optimal_actions(encoded_state, ...): the single-action head
\* answers at once, the multi-action head enters its loop
StartOptimal(c) ==
    IF model.is_single_action
    THEN /\ ret' = SingleOptimal(c)
         /\ pc' = "done"
         /\ NoLoop
    ELSE /\ ret' = NoRet
         /\ pc' = "decode"
         /\ head_inputs' = [b \in 1..c.batch |-> <<SosToken(c.enc[b])>>]
         /\ action_idx' = 0
         /\ action_bins' = [b \in 1..c.batch |-> <<>>]
         /\ embed' = <<>>

\* get_random_actions(batch_size)
GetRandomActions(batch) ==
    /\ pc = "idle"
    /\ call' = [NoCall EXCEPT !.op = "get_random_actions", !.batch = batch]
    /\ RandomResult(batch)
    /\ pc' = "done"
    /\ NoLoop
    /\ UNCHANGED <<seed, model>>
    /\ UNCHANGED notQ

\* get_optimal_actions(video / encoded_state, return_q_values = rq)
GetOptimalActions(batch, rq) ==
    /\ pc = "idle"
    /\ LET c == [NewCall("get_optimal_actions", batch) EXCEPT !.return_q_values = rq]
       IN  /\ call' = c
           /\ StartOptimal(c)
    /\ UNCHANGED <<seed, model>>
    /\ UNCHANGED notQ

\* QRoboticTransformer.get_actions(video, prob_random_action = p / 100),
\* where random() returns u / 100
GetActions(batch, p, u) ==
    /\ pc = "idle"
    /\ model.kind = "qrt"
    /\ LET c == [NewCall("get_actions", batch) EXCEPT !.p = p, !.u = u]
       IN  /\ call' = c
           /\ IF ~(0 <= p /\ p <= 100)
              THEN /\ ret' = Raise("AssertionError")
                   /\ pc' = "done"
                   /\ NoLoop
              ELSE IF u < p
                   THEN /\ RandomResult(batch)
                        /\ pc' = "done"
                        /\ NoLoop
                   ELSE StartOptimal(c)
    /\ UNCHANGED <<seed, model>>
    /\ UNCHANGED notQ

\* QHeadMultipleActions.get_optimal_actions: one iteration of the loop
DecodeStep ==
    /\ pc = "decode"
    /\ action_idx < model.head_num_actions
    /\ LET slot == action_idx + 1
           A    == model.action_bins
           emb  == AsSeq([b \in 1..call.batch |-> HeadEmbed(seed, head_inputs[b])])
           sel  == AsSeq([b \in 1..call.batch |->
                       ArgMax(StepQValues(seed, emb[b], slot, A), A)])
       IN  /\ embed' = emb
           /\ head_inputs' = [b \in 1..call.batch |->
                                Append(head_inputs[b],
                                       action_bin_embeddings(seed, slot, sel[b]))]
           /\ action_bins' = [b \in 1..call.batch |-> Append(action_bins[b], sel[b])]
           /\ action_idx' = slot
    /\ UNCHANGED <<seed, model, pc, call, ret>>
    /\ UNCHANGED notQ

\* QHeadMultipleActions.get_optimal_actions: after the loop
DecodeReturn ==
    /\ pc = "decode"
    /\ action_idx = model.head_num_actions
    /\ ret' = [NoRet EXCEPT
                 !.status = "ok",
                 !.shape = <<call.batch, action_idx>>,
                 !.bins = action_bins,
                 !.embed = embed,
                 !.q_values =
                    IF call.return_q_values
                    THEN [b \in 1..call.batch |->
                            get_q_values(seed, embed[b], model.action_bins, model.dueling)]
                    ELSE <<>>]
    /\ pc' = "done"
    /\ UNCHANGED <<seed, model, call, head_inputs, action_idx, action_bins, embed>>
    /\ UNCHANGED notQ

\* probabilities and draws, in hundredths
ProbValues == {-50, 0, 50, 100, 150}

DrawValues == {25, 75}

\* the caller takes the result; the object is ready for the next call
Return ==
    /\ pc = "done"
    /\ pc' = "idle"
    /\ call' = NoCall
    /\ ret' = NoRet
    /\ NoLoop
    /\ UNCHANGED <<seed, model>>
    /\ UNCHANGED notQ

Next ==
    \/ \E n \in 0..MaxActions, A \in BinChoices, d \in BOOLEAN :
          QRoboticTransformerInit(n, A, d)
    \/ \E n \in 1..MaxActions, A \in BinChoices, d \in BOOLEAN :
          QHeadMultipleActionsInit(n, A, d)
    \/ \E b \in 1..MaxBatch : ForwardNoActions(b)
    \/ \E b \in 1..MaxBatch, k \in 1..MaxActions :
          \E row \in Rows(k, model.action_bins) : ForwardActions(b, row)
    \/ \E b \in 1..MaxBatch : GetRandomActions(b)
    \/ \E b \in 1..MaxBatch, rq \in BOOLEAN : GetOptimalActions(b, rq)
    \/ \E b \in 1..MaxBatch, p \in ProbValues, u \in DrawValues : GetActions(b, p, u)
    \/ DecodeStep
    \/ DecodeReturn
    \/ Return

Spec == Init /\ [][Next]_vars

(***************************************************************************)
(* Properties of forward                                                   *)
(***************************************************************************)
ForwardDone == pc = "done" /\ call.op = "forward"

QEntriesInUnitInterval ==
    \A b \in 1..call.batch :
        IF model.is_single_action
        THEN \A a \in 0..(model.action_bins - 1) :
                ret.q_values[b][a] >= 0 /\ ret.q_values[b][a] <= SigScale
        ELSE \A s \in 1..Len(ret.q_values[b]) : \A a \in 0..(model.action_bins - 1) :
                ret.q_values[b][s][a] >= 0 /\ ret.q_values[b][s][a] <= SigScale

\* C1: every forward call of a QRoboticTransformer returns a Q-value tensor
\* of shape (batch, num_actions, action_bins), with the constructor's
\* num_actions and action_bins, and entries in [0, 1].  Stated for the calls
\* of a multi-action model that pass an actions tensor, where the shape has
\* all three axes.
C1_ShapeIsBatchActionsBins ==
    (ForwardDone /\ model.kind = "qrt" /\ ret.status = "ok" /\ call.has_actions) =>
        /\ ret.shape = <<call.batch, model.num_actions, model.action_bins>>
        /\ QEntriesInUnitInterval

MultiForwardDone ==
    ForwardDone /\ ret.status = "ok" /\ ~model.is_single_action

SingleForwardDone ==
    ForwardDone /\ ret.status = "ok" /\ model.is_single_action

\* the terms of the single-action dueling head for batch element b
DuelingHidden(b) == Stem(seed, Pooled(call.enc[b]))

DuelingAdv(b, a) == Dot(LinearW(seed, 1, a), DuelingHidden(b)) + LinearB(seed, 1, a)

DuelingValue(b) == Dot(LinearW(seed, 2, 0), DuelingHidden(b)) + LinearB(seed, 2, 0)

\* the terms of the multi-action dueling head for batch element b, slot s
MultiAdv(b, s, a) == Dot(ret.embed[b][s], action_bin_embeddings(seed, s, a))

MultiValue(b, s) == Dot(ret.embed[b][s], to_values(seed, s))

\* C2: with dueling, the pre-sigmoid Q-value of every bin is
\* value + (advantage of the bin - mean advantage of the slot), in the
\* single-action DuelingHead and in the multi-action get_q_values, and so
\* the pre-sigmoid Q-values of a slot average to the slot's value.
\* (q_pre holds numerators over action_bins, so both sides are times
\* action_bins.)
C2_DuelingDecomposition ==
    LET A == model.action_bins IN
    /\ (MultiForwardDone /\ model.dueling) =>
          \A b \in 1..call.batch : \A s \in 1..Len(ret.q_pre[b]) :
             /\ \A a \in 0..(A - 1) :
                   ret.q_pre[b][s][a] =
                      A * MultiValue(b, s)
                      + (A * MultiAdv(b, s, a)
                         - SumSeq([k \in 1..A |-> MultiAdv(b, s, k - 1)]))
             /\ SumSeq([k \in 1..A |-> ret.q_pre[b][s][k - 1]]) = A * (A * MultiValue(b, s))
    /\ (SingleForwardDone /\ model.dueling) =>
          \A b \in 1..call.batch :
             /\ \A a \in 0..(A - 1) :
                   ret.q_pre[b][a] =
                      A * DuelingValue(b)
                      + (A * DuelingAdv(b, a)
                         - SumSeq([k \in 1..A |-> DuelingAdv(b, k - 1)]))
             /\ SumSeq([k \in 1..A |-> ret.q_pre[b][k - 1]]) = A * (A * DuelingValue(b))

\* a dueling multi-action forward whose advantages in some slot differ
\* between bins and do not sum to zero
C2_Witness ==
    /\ MultiForwardDone /\ model.dueling /\ call.has_actions
    /\ model.action_bins >= 2
    /\ \E b \in 1..call.batch : \E s \in 1..Len(ret.q_pre[b]) :
          /\ MultiAdv(b, s, 0) # MultiAdv(b, s, 1)
          /\ SumSeq([k \in 1..model.action_bins |-> MultiAdv(b, s, k - 1)]) # 0

\* two rows of an actions tensor agree on the columns before column i
AgreeBefore(r1, r2, i) == \A j \in 1..Len(r1) : j < i => r1[j] = r2[j]

\* C3: in the multi-action head the output of a slot depends only on the
\* state token and the action tokens before it.  Teacher-forced forward:
\* any actions row that agrees with the given one on the columns before
\* slot s gives the same Q-values in slot s.  Greedy decoding: the output
\* at each position is the output the prefix up to that position gives.
C3_NoFutureSlots ==
    /\ (MultiForwardDone /\ call.has_actions) =>
          \A b \in 1..call.batch :
             \A r \in Rows(Len(call.actions[b]), model.action_bins) :
                LET q == get_q_values(seed,
                                      HeadEmbed(seed, ForwardTokens(seed, model.head_num_actions,
                                                                    call.enc[b], TRUE, r)),
                                      model.action_bins, model.dueling)
                IN  \A s \in 1..Len(ret.q_values[b]) :
                       AgreeBefore(call.actions[b], r, s) => q[s] = ret.q_values[b][s]
    /\ (pc = "decode" /\ action_idx >= 1) =>
          \A b \in 1..call.batch : \A i \in 1..action_idx :
             embed[b][i] = HeadEmbed(seed, Take(head_inputs[b], i))[i]

\* a teacher-forced forward with at least two slots where another row,
\* equal before the first slot's successor but different later, exists
C3_Witness ==
    /\ MultiForwardDone /\ call.has_actions
    /\ model.action_bins >= 2
    /\ Len(ret.q_values[1]) >= 3
    /\ \E r \in Rows(Len(call.actions[1]), model.action_bins) :
          /\ AgreeBefore(call.actions[1], r, 2)
          /\ r # call.actions[1]
          /\ ForwardTokens(seed, model.head_num_actions, call.enc[1], TRUE, r) # ret.tokens[1]

\* C4: in single-action mode a forward call that passes actions fails with
\* an assertion error and returns no Q-values; a call without succeeds.
C4_SingleActionRejectsActions ==
    (ForwardDone /\ model.kind = "qrt" /\ model.is_single_action) =>
        /\ call.has_actions => (ret.status = "AssertionError" /\ ret.q_values = <<>>)
        /\ (~call.has_actions) => (ret.status = "ok" /\ Len(ret.q_values) = call.batch)

C4_Witness ==
    /\ ForwardDone /\ model.kind = "qrt" /\ model.is_single_action
    /\ call.has_actions /\ ret.status = "AssertionError"

(***************************************************************************)
(* Properties of get_optimal_actions and get_actions                       *)
(***************************************************************************)
IsBin(a) == a \in 0..(model.action_bins - 1)

\* a is a maximiser of the dot products of e with the bin table of slot j
IsArgMax(a, e, j) ==
    \A a2 \in 0..(model.action_bins - 1) :
        Dot(e, action_bin_embeddings(seed, j, a2)) <= Dot(e, action_bin_embeddings(seed, j, a))

\* C7: greedy decoding goes through the slots in order.  After i
\* iterations the transformer input is the state token followed by exactly
\* the embeddings, from each slot's own table, of the bins selected so far;
\* the bin of the latest slot is an argmax, over that slot's table, of the
\* dot product with the transformer's output at that slot's position for
\* the input before the bin was appended; the result has one bin in
\* [0, action_bins) for every batch element and slot.
C7_GreedyDecoding ==
    /\ pc = "decode" =>
          \A b \in 1..call.batch :
             /\ Len(action_bins[b]) = action_idx
             /\ action_idx <= model.head_num_actions
             /\ head_inputs[b] =
                   <<SosToken(call.enc[b])>> \o
                   [j \in 1..action_idx |-> action_bin_embeddings(seed, j, action_bins[b][j])]
             /\ \A j \in 1..action_idx : IsBin(action_bins[b][j])
             /\ action_idx >= 1 =>
                   IsArgMax(action_bins[b][action_idx],
                            HeadEmbed(seed, Take(head_inputs[b], action_idx))[action_idx],
                            action_idx)
    /\ (pc = "done" /\ call.op \in {"get_optimal_actions", "get_actions"}
          /\ ret.status = "ok" /\ ~model.is_single_action) =>
          /\ Len(ret.bins) = call.batch
          /\ \A b \in 1..call.batch :
                /\ Len(ret.bins[b]) = model.head_num_actions
                /\ \A j \in 1..Len(ret.bins[b]) : IsBin(ret.bins[b][j])

\* a finished greedy decoding that selected different bins in two slots
C7_Witness ==
    /\ pc = "done" /\ call.op = "get_optimal_actions" /\ ret.status = "ok"
    /\ ~model.is_single_action
    /\ \E j1, j2 \in 1..Len(ret.bins[1]) : ret.bins[1][j1] # ret.bins[1][j2]

\* C15: get_optimal_actions with return_q_values = True: for every batch
\* element and slot i the returned bin, chosen from the raw dot products of
\* step i, is an argmax of row i of the returned Q-values, which are
\* computed once from the last step's transformer output with the dueling
\* combination (if on) and the sigmoid.
C15_BinsMaximiseReturnedQValues ==
    (pc = "done" /\ call.op = "get_optimal_actions" /\ call.return_q_values
        /\ ret.status = "ok" /\ ~model.is_single_action) =>
        \A b \in 1..call.batch :
            /\ Len(ret.q_values[b]) = Len(ret.bins[b])
            /\ ret.q_values[b] =
                  get_q_values(seed, HeadEmbed(seed, Take(head_inputs[b], Len(ret.bins[b]))),
                               model.action_bins, model.dueling)
            /\ \A i \in 1..Len(ret.bins[b]) :
                  \A a \in 0..(model.action_bins - 1) :
                      ret.q_values[b][i][a] <= ret.q_values[b][i][ret.bins[b][i]]

\* a dueling head returned, for some slot, a bin other than the first
\* whose Q-value is strictly above another bin's
C15_Witness ==
    /\ pc = "done" /\ call.op = "get_optimal_actions" /\ call.return_q_values
    /\ ret.status = "ok" /\ ~model.is_single_action /\ model.dueling
    /\ \E i \in 2..Len(ret.bins[1]) :
          /\ ret.bins[1][i] # 0
          /\ \E a \in 0..(model.action_bins - 1) :
                ret.q_values[1][i][a] < ret.q_values[1][i][ret.bins[1][i]]

\* C8: forward with an actions tensor of k columns, 1 <= k <= num_actions:
\* the transformer input is the state token, then at position i+1 the
\* embedding of actions[:, i] from slot i's table, cut to num_actions
\* positions; the output has min(k+1, num_actions) slots; when
\* k = num_actions the bin of the last column changes no returned Q-value.
C8_TeacherForcing ==
    (MultiForwardDone /\ call.has_actions) =>
        \A b \in 1..call.batch :
            LET row == call.actions[b]
                k   == Len(row)
                n   == model.head_num_actions
            IN  /\ k <= n
                /\ Len(ret.tokens[b]) = Min(k + 1, n)
                /\ ret.tokens[b][1] = SosToken(call.enc[b])
                /\ \A i \in 1..k :
                      i + 1 <= n =>
                         ret.tokens[b][i + 1] = action_bin_embeddings(seed, i, row[i])
                /\ ret.shape = <<call.batch, Min(k + 1, n), model.action_bins>>
                /\ Len(ret.q_values[b]) = Min(k + 1, n)
                /\ k = n =>
                      \A a \in 0..(model.action_bins - 1) :
                         get_q_values(seed,
                                      HeadEmbed(seed, ForwardTokens(seed, n, call.enc[b], TRUE,
                                                                    [row EXCEPT ![k] = a])),
                                      model.action_bins, model.dueling)
                         = ret.q_values[b]

\* a forward whose actions tensor has as many columns as the head has slots
C8_Witness ==
    /\ MultiForwardDone /\ call.has_actions
    /\ Len(call.actions[1]) = model.head_num_actions
    /\ model.head_num_actions >= 2
    /\ model.action_bins >= 2

\* C10: for 0 <= prob_random_action <= 1, get_actions completes and returns
\* bins in [0, action_bins), one for every batch element (and action slot
\* in multi-action mode), on the random and on the greedy branch; a
\* probability outside [0, 1] is rejected by assertion.
C10_GetActionsReturnsBins ==
    (pc = "done" /\ call.op = "get_actions") =>
        IF 0 <= call.p /\ call.p <= 100
        THEN /\ ret.status = "ok"
             /\ Len(ret.bins) = call.batch
             /\ \A b \in 1..call.batch :
                   IF model.is_single_action
                   THEN IsBin(ret.bins[b])
                   ELSE /\ Len(ret.bins[b]) = model.num_actions
                        /\ \A j \in 1..Len(ret.bins[b]) : IsBin(ret.bins[b][j])
        ELSE ret.status = "AssertionError"

(***************************************************************************)
(* TokenLearner.forward, on tensor shapes                                  *)
(***************************************************************************)
MaxFrames   == 2
MaxChannels == 2
MaxSide     == 3
MaxTokens   == 3

\* pack_one(x, '* c h w'): the leading axes are merged, their sizes kept
PackLead(shape) ==
    <<shape[1] * shape[2], shape[3], shape[4], shape[5]>>

PackedShape(shape) == <<shape[1], shape[2]>>

\* repeat(x, 'b c h w -> b (g c) h w', g = num_output_tokens)
RepeatGroups(shape, g) == <<shape[1], g * shape[2], shape[3], shape[4]>>

\* nn.Conv2d(c_in, c_out, 1, groups = g) accepts exactly c_in channels; a
\* 1 x 1 convolution keeps height and width
Conv1x1(shape, c_in, c_out) == <<shape[1], c_out, shape[3], shape[4]>>

\* self.net, then rearrange(attn, 'b g h w -> b 1 g h w')
AttnMaps(shape, dim, ff_mult, g) ==
    LET a == Conv1x1(Conv1x1(shape, dim * g, dim * ff_mult * g), dim * ff_mult * g, g)
    IN  <<a[1], 1, a[2], a[3], a[4]>>

\* rearrange(x, 'b (g c) h w -> b c g h w', g = num_output_tokens)
SplitGroups(shape, g) == <<shape[1], shape[2] \div g, g, shape[3], shape[4]>>

\* the shape of x * attn
Broadcast(s1, s2) == [i \in 1..Len(s1) |-> Max(s1[i], s2[i])]

\* variant: the mean is taken over the width only, height stays with the tokens
ReduceSpatial_KeepHeight(shape) == <<shape[1], shape[2], shape[3] * shape[4]>>

\* reduce(x * attn, 'b c g h w -> b c g', 'mean')
ReduceSpatial(shape) == <<shape[1], shape[2], shape[3]>>

\* unpack_one(x, ps, '* c n')
UnpackLead(shape, ps) == <<ps[1], ps[2], shape[2], shape[3]>>

TokenLearnerFFMult == 2

\* a TokenLearner(dim, num_output_tokens) and an input (batch, frames, c, h, w)
InitTL ==
    /\ \E dim \in 1..MaxChannels, g \in 1..MaxTokens,
          b \in 1..MaxBatch, f \in 1..MaxFrames, c \in 1..MaxChannels,
          h \in 1..MaxSide, w \in 1..MaxSide :
          tl = [pc |-> "start", dim |-> dim, num_output_tokens |-> g,
                input |-> <<b, f, c, h, w>>, x |-> <<b, f, c, h, w>>,
                ps |-> <<>>, attn |-> <<>>]
    /\ QIdle
    /\ rp = RPIdle
    /\ ctor = CtorIdle
    /\ es = ESIdle
    /\ bn = BNIdle

notTL == <<qvars, rp, ctor, es, bn>>

\* x, ps = pack_one(x, '* c h w')
TLPack ==
    /\ tl.pc = "start"
    /\ tl' = [tl EXCEPT !.pc = "packed", !.x = PackLead(tl.x), !.ps = PackedShape(tl.x)]
    /\ UNCHANGED notTL

\* x = repeat(x, 'b c h w -> b (g c) h w', g = self.num_output_tokens)
TLRepeat ==
    /\ tl.pc = "packed"
    /\ tl' = [tl EXCEPT !.pc = "repeated", !.x = RepeatGroups(tl.x, tl.num_output_tokens)]
    /\ UNCHANGED notTL

\* attn = self.net(x); attn = rearrange(attn, 'b g h w -> b 1 g h w');
\* the first convolution rejects an input with other than dim * g channels
TLAttn ==
    /\ tl.pc = "repeated"
    /\ IF tl.x[2] = tl.dim * tl.num_output_tokens
       THEN tl' = [tl EXCEPT !.pc = "attn",
                             !.attn = AttnMaps(tl.x, tl.dim, TokenLearnerFFMult,
                                               tl.num_output_tokens)]
       ELSE tl' = [tl EXCEPT !.pc = "RuntimeError"]
    /\ UNCHANGED notTL

\* x = rearrange(x, 'b (g c) h w -> b c g h w', g = self.num_output_tokens)
TLSplit ==
    /\ tl.pc = "attn"
    /\ tl' = [tl EXCEPT !.pc = "split", !.x = SplitGroups(tl.x, tl.num_output_tokens)]
    /\ UNCHANGED notTL

\* x = reduce(x * attn, 'b c g h w -> b c g', 'mean')
TLReduce ==
    /\ tl.pc = "split"
    /\ tl' = [tl EXCEPT !.pc = "reduced", !.x = ReduceSpatial(Broadcast(tl.x, tl.attn))]
    /\ UNCHANGED notTL

\* x = unpack_one(x, ps, '* c n'); return x
TLUnpack ==
    /\ tl.pc = "reduced"
    /\ tl' = [tl EXCEPT !.pc = "done", !.x = UnpackLead(tl.x, tl.ps)]
    /\ UNCHANGED notTL

NextTL == TLPack \/ TLRepeat \/ TLAttn \/ TLSplit \/ TLReduce \/ TLUnpack

SpecTokenLearner == InitTL /\ [][NextTL]_vars

\* C5: for an input of shape (batch, frames, channels, height, width), any
\* height and width, TokenLearner.forward returns a tensor of shape
\* (batch, frames, channels, num_output_tokens).
C5_TokenLearnerShape ==
    tl.pc = "done" =>
        tl.x = <<tl.input[1], tl.input[2], tl.input[3], tl.num_output_tokens>>

\* a finished forward on a feature map whose height, width and their
\* product all differ from the number of output tokens
C5_Witness ==
    /\ tl.pc = "done"
    /\ tl.input[4] >= 2 /\ tl.input[5] >= 2
    /\ tl.num_output_tokens >= 2
    /\ tl.num_output_tokens \notin {tl.input[4], tl.input[5], tl.input[4] * tl.input[5]}

(***************************************************************************)
(* Attention.__init__: the relative position indices                       *)
(***************************************************************************)
MaxWindow == 3

\* positions of a window, flattened 'c i j -> (i j) c': 0 .. w*w - 1
Positions(w) == 0..(w * w - 1)

\* grid = stack(meshgrid(pos, pos, indexing = 'ij')), 'c i j -> (i j) c'
Grid(w) == [p \in Positions(w) |-> <<p \div w, p % w>>]

\* rel_pos = rearrange(grid, 'i ... -> i 1 ...') - rearrange(grid, 'j ... -> 1 j ...')
RelPos(grid, w) ==
    [p \in Positions(w) |-> [q \in Positions(w) |->
        <<grid[p][1] - grid[q][1], grid[p][2] - grid[q][2]>>]]

\* variant: the offsets are shifted by window_size
ShiftRelPos_ByWindow(rel_pos, w) ==
    [p \in Positions(w) |-> [q \in Positions(w) |->
        <<rel_pos[p][q][1] + w, rel_pos[p][q][2] + w>>]]

\* rel_pos += window_size - 1
ShiftRelPos(rel_pos, w) ==
    [p \in Positions(w) |-> [q \in Positions(w) |->
        <<rel_pos[p][q][1] + (w - 1), rel_pos[p][q][2] + (w - 1)>>]]

\* variant: the row offset is weighted by window_size
RelPosIndices_StrideWindow(rel_pos, w) ==
    [p \in Positions(w) |-> [q \in Positions(w) |->
        rel_pos[p][q][1] * w + rel_pos[p][q][2] * 1]]

\* (rel_pos * torch.tensor([2 * window_size - 1, 1])).sum(dim = -1)
RelPosIndices(rel_pos, w) ==
    [p \in Positions(w) |-> [q \in Positions(w) |->
        rel_pos[p][q][1] * (2 * w - 1) + rel_pos[p][q][2] * 1]]

\* nn.Embedding((2 * window_size - 1) ** 2, heads): the number of rows
RelPosBiasRows(w) == (2 * w - 1) * (2 * w - 1)

InitRP ==
    /\ \E w \in 1..MaxWindow :
          rp = [pc |-> "start", window_size |-> w, grid |-> <<>>, rel_pos |-> <<>>,
                rel_pos_indices |-> <<>>, p |-> 0, q |-> 0, row |-> 0]
    /\ QIdle
    /\ tl = TLIdle
    /\ ctor = CtorIdle
    /\ es = ESIdle
    /\ bn = BNIdle

notRP == <<qvars, tl, ctor, es, bn>>

RPGrid ==
    /\ rp.pc = "start"
    /\ rp' = [rp EXCEPT !.pc = "grid", !.grid = Grid(rp.window_size)]
    /\ UNCHANGED notRP

RPRelPos ==
    /\ rp.pc = "grid"
    /\ rp' = [rp EXCEPT !.pc = "rel_pos", !.rel_pos = RelPos(rp.grid, rp.window_size)]
    /\ UNCHANGED notRP

RPShift ==
    /\ rp.pc = "rel_pos"
    /\ rp' = [rp EXCEPT !.pc = "shifted",
                        !.rel_pos = ShiftRelPos(rp.rel_pos, rp.window_size)]
    /\ UNCHANGED notRP

\* the indices are computed and registered as the buffer rel_pos_indices
RPIndices ==
    /\ rp.pc = "shifted"
    /\ rp' = [rp EXCEPT !.pc = "built",
                        !.rel_pos_indices = RelPosIndices(rp.rel_pos, rp.window_size)]
    /\ UNCHANGED notRP

\* Attention.forward, self.rel_pos_bias(self.rel_pos_indices): the row of
\* the table read for the pair of positions (p, q)
RPLookup(p, q) ==
    /\ rp.pc \in {"built", "lookup"}
    /\ p \in Positions(rp.window_size)
    /\ q \in Positions(rp.window_size)
    /\ rp' = [rp EXCEPT !.pc = "lookup", !.p = p, !.q = q,
                        !.row = rp.rel_pos_indices[p][q]]
    /\ UNCHANGED notRP

NextRP ==
    \/ RPGrid
    \/ RPRelPos
    \/ RPShift
    \/ RPIndices
    \/ \E p, q \in Positions(MaxWindow) : RPLookup(p, q)

SpecRelPos == InitRP /\ [][NextRP]_vars

\* the 2-D offset between two flattened window positions
Offset(p, q, w) == <<(p \div w) - (q \div w), (p % w) - (q % w)>>

\* C6: the relative position index of a pair (p, q) depends only on the
\* 2-D offset p - q; the transposed pair has the index of the negated
\* offset, rel_pos_indices[q][p] = (2w-1)^2 - 1 - rel_pos_indices[p][q];
\* all diagonal entries share one index.
C6_RelPosTranspose ==
    rp.pc = "lookup" =>
        LET w   == rp.window_size
            idx == rp.rel_pos_indices
        IN  /\ rp.row = idx[rp.p][rp.q]
            /\ \A p2, q2 \in Positions(w) :
                  Offset(p2, q2, w) = Offset(rp.p, rp.q, w) => idx[p2][q2] = rp.row
            /\ idx[rp.q][rp.p] = (2 * w - 1) * (2 * w - 1) - 1 - rp.row
            /\ \A p2, q2 \in Positions(w) :
                  Offset(p2, q2, w) = Offset(rp.q, rp.p, w) =>
                     idx[p2][q2] = (2 * w - 1) * (2 * w - 1) - 1 - rp.row
            /\ idx[rp.p][rp.p] = idx[0][0]

\* a looked-up pair of different positions in a window larger than 1 x 1
\* whose offset is shared by another pair
C6_Witness ==
    /\ rp.pc = "lookup"
    /\ rp.window_size >= 2
    /\ rp.p # rp.q
    /\ \E p2, q2 \in Positions(rp.window_size) :
          /\ <<p2, q2>> # <<rp.p, rp.q>>
          /\ Offset(p2, q2, rp.window_size) = Offset(rp.p, rp.q, rp.window_size)

\* C14: every entry of rel_pos_indices, and so every row read in forward,
\* lies in 0 .. (2w-1)^2 - 1, inside the rel_pos_bias table; two pairs of
\* positions have the same index only if they have the same 2-D offset.
C14_RelPosInTableInjective ==
    rp.pc \in {"built", "lookup"} =>
        LET w   == rp.window_size
            idx == rp.rel_pos_indices
        IN  /\ \A p1, q1 \in Positions(w) :
                  /\ idx[p1][q1] >= 0
                  /\ idx[p1][q1] <= (2 * w - 1) * (2 * w - 1) - 1
                  /\ idx[p1][q1] < RelPosBiasRows(w)
            /\ rp.pc = "lookup" =>
                  /\ rp.row \in 0..(RelPosBiasRows(w) - 1)
                  /\ \A p2, q2 \in Positions(w) :
                        idx[p2][q2] = rp.row => Offset(p2, q2, w) = Offset(rp.p, rp.q, w)

\* the pair of the last and the first position of a window larger than
\* 1 x 1, which reads the last row of the table; the transposed pair has
\* the first
C14_Witness ==
    /\ rp.pc = "lookup"
    /\ rp.window_size >= 2
    /\ rp.row = RelPosBiasRows(rp.window_size) - 1
    /\ rp.rel_pos_indices[rp.q][rp.p] = 0

(***************************************************************************)
(* Construction of a QRoboticTransformer: the attention modules            *)
(***************************************************************************)
MaxStages     == 2
MaxStageDepth == 2
MaxDepth      == 2

DefaultDimHead == 64

\* the values tried for the vit's dim and dim_head, and for the dim_head
\* given to QRoboticTransformer
VitDims == {32, 48, 64}

VitDimHeads == {16, 32}

DimHeads == {32, 64}

RECURSIVE Pow2(_)
Pow2(n) == IF n = 0 THEN 1 ELSE 2 * Pow2(n - 1)

\* MaxViT.__init__: dims = (2 ** i) * dim for stage i (counted from 1 here)
LayerDim(dim, stage) == Pow2(stage - 1) * dim

\* variant: the constructor of Attention accepts every dim
AttentionAccepts_Unchecked(dim, dim_head) == TRUE

\* Attention.__init__: assert (dim % dim_head) == 0
AttentionAccepts(dim, dim_head) == (dim % dim_head) = 0

\* a windowed Attention of a MaxViT block
AttentionModule(dim, dim_head, stage) ==
    [kind |-> "Attention", dim |-> dim, dim_head |-> dim_head,
     asked_dim_head |-> dim_head, stage |-> stage]

\* TransformerAttention.__init__ asserts nothing: inner_dim = dim_head * heads.
\* Transformer.__init__ does not hand its dim_head on, so the module has
\* TransformerAttention's default.
TransformerAttentionModule(dim, asked_dim_head) ==
    [kind |-> "TransformerAttention", dim |-> dim, dim_head |-> DefaultDimHead,
     asked_dim_head |-> asked_dim_head, stage |-> 0]

\* Transformer.__init__: depth layers, one TransformerAttention each
RECURSIVE TransformerModules(_, _, _)
TransformerModules(dim, asked_dim_head, depth) ==
    IF depth = 0 THEN <<>>
    ELSE <<TransformerAttentionModule(dim, asked_dim_head)>>
         \o TransformerModules(dim, asked_dim_head, depth - 1)

DepthTuples == UNION {[1..k -> 1..MaxStageDepth] : k \in 1..MaxStages}

InitCtor ==
    /\ \E dim \in VitDims, dh \in VitDimHeads, depth \in DepthTuples,
          d \in 1..MaxDepth, qdh \in DimHeads, n \in 0..2 :
          ctor = [pc |-> "vit",
                  vit_dim |-> dim, vit_dim_head |-> dh, vit_depth |-> depth,
                  depth |-> d, dim_head |-> qdh, num_actions |-> n,
                  stage |-> 1, stage_ind |-> 1, modules |-> <<>>,
                  raised_by |-> "none"]
    /\ QIdle
    /\ tl = TLIdle
    /\ rp = RPIdle
    /\ es = ESIdle
    /\ bn = BNIdle

notCtor == <<qvars, tl, rp, es, bn>>

\* MaxViT.__init__, one pass of the inner loop: a block with its two
\* windowed Attention modules; the first failing assertion ends the
\* construction
CtorVitBlock ==
    /\ ctor.pc = "vit"
    /\ LET layer_dim == LayerDim(ctor.vit_dim, ctor.stage)
           last_blk  == ctor.stage_ind = ctor.vit_depth[ctor.stage]
           last      == last_blk /\ ctor.stage = Len(ctor.vit_depth)
       IN  IF AttentionAccepts(layer_dim, ctor.vit_dim_head)
           THEN ctor' = [ctor EXCEPT
                           !.modules = @ \o <<AttentionModule(layer_dim, ctor.vit_dim_head, ctor.stage),
                                              AttentionModule(layer_dim, ctor.vit_dim_head, ctor.stage)>>,
                           !.stage = IF last_blk /\ ~last THEN @ + 1 ELSE @,
                           !.stage_ind = IF last_blk THEN 1 ELSE @ + 1,
                           !.pc = IF last THEN "transformer" ELSE "vit"]
           ELSE ctor' = [ctor EXCEPT !.pc = "AssertionError",
                                     !.raised_by = "Attention"]
    /\ UNCHANGED notCtor

\* QRoboticTransformer.__init__ after the vit: assert num_actions >= 1, then
\* self.transformer = Transformer(dim = attend_dim, dim_head = dim_head,
\* heads = heads, depth = depth, ...) with attend_dim = vit.embed_dim, the
\* dimension of the last stage
CtorTransformer ==
    /\ ctor.pc = "transformer"
    /\ IF ctor.num_actions >= 1
       THEN ctor' = [ctor EXCEPT
                       !.modules = @ \o TransformerModules(LayerDim(ctor.vit_dim, Len(ctor.vit_depth)),
                                                           ctor.dim_head, ctor.depth),
                       !.pc = "q_head"]
       ELSE ctor' = [ctor EXCEPT !.pc = "AssertionError",
                                 !.raised_by = "QRoboticTransformer"]
    /\ UNCHANGED notCtor

\* QRoboticTransformer.__init__: the Q head; only the multi-action head
\* has a Transformer (attn_depth = 2, attn_dim_head = 64 in q_head_attn_kwargs)
CtorQHead ==
    /\ ctor.pc = "q_head"
    /\ ctor' = [ctor EXCEPT
                  !.modules =
                     IF ctor.num_actions = 1 THEN @
                     ELSE @ \o TransformerModules(LayerDim(ctor.vit_dim, Len(ctor.vit_depth)),
                                                  DefaultDimHead, DefaultAttnDepth),
                  !.pc = "done"]
    /\ UNCHANGED notCtor

NextCtor == CtorVitBlock \/ CtorTransformer \/ CtorQHead

SpecConstruct == InitCtor /\ [][NextCtor]_vars

Divisible(m) == (m.dim % m.dim_head) = 0 /\ (m.dim % m.asked_dim_head) = 0

\* C9 as stated: every attention module of a constructed model, windowed
\* Attention and TransformerAttention alike, has a dimension that is a
\* multiple of its dim_head.
C9_EveryAttentionDivisible ==
    ctor.pc = "done" =>
        \A i \in 1..Len(ctor.modules) : Divisible(ctor.modules[i])

\* C9 amended: the check is made for the windowed Attention modules of the
\* MaxViT only.  An Attention ends the construction with an assertion error
\* exactly when some stage's dimension dim * 2^stage (stages counted from 0)
\* is not a multiple of the vit's dim_head; no assertion error comes from a
\* TransformerAttention; a constructed model has two divisible Attention
\* modules for every block of every stage, and its TransformerAttention
\* modules were built unchecked.
C9_VitAttentionDivisible ==
    LET stages   == 1..Len(ctor.vit_depth)
        all_div  == \A st \in stages :
                       (LayerDim(ctor.vit_dim, st) % ctor.vit_dim_head) = 0
        blocks   == SumSeq(ctor.vit_depth)
        t_layers == ctor.depth + (IF ctor.num_actions = 1 THEN 0 ELSE DefaultAttnDepth)
    IN  /\ ctor.pc = "AssertionError" =>
              /\ ctor.raised_by \in {"Attention", "QRoboticTransformer"}
              /\ ctor.raised_by = "Attention" <=> ~all_div
              /\ ctor.raised_by = "QRoboticTransformer" <=> (all_div /\ ctor.num_actions < 1)
              /\ \A i \in 1..Len(ctor.modules) : ctor.modules[i].kind = "Attention"
        /\ ctor.pc \in {"transformer", "q_head", "done"} => all_div
        /\ ctor.pc = "done" =>
              /\ Len(ctor.modules) = 2 * blocks + t_layers
              /\ \A i \in 1..Len(ctor.modules) :
                    LET m == ctor.modules[i]
                    IN  IF i <= 2 * blocks
                        THEN /\ m.kind = "Attention"
                             /\ m.dim = LayerDim(ctor.vit_dim, m.stage)
                             /\ m.dim_head = ctor.vit_dim_head
                             /\ Divisible(m)
                        ELSE m.kind = "TransformerAttention"

\* a constructed model with two stages of divisible windowed Attention
\* and a TransformerAttention whose dimension is no multiple of its dim_head
C9_Witness ==
    /\ ctor.pc = "done"
    /\ Len(ctor.vit_depth) >= 2
    /\ \E i \in 1..Len(ctor.modules) :
          ctor.modules[i].kind = "Attention" /\ ctor.modules[i].stage = 2
    /\ \E i \in 1..Len(ctor.modules) :
          ctor.modules[i].kind = "TransformerAttention" /\ ~Divisible(ctor.modules[i])

(***************************************************************************)
(* encode_state: conditioning functions, the MaxViT blocks, the frame mask *)
(***************************************************************************)

\* a[start:] and a[:stop] of Python, for any integer bound: a negative
\* bound counts from the end, and -0 is 0
PySliceFrom(a, start) ==
    LET from == IF start < 0 THEN Max(Len(a) + start, 0) ELSE Min(start, Len(a))
    IN  SubSeq(a, from + 1, Len(a))

PySliceTo(a, stop) ==
    LET to == IF stop < 0 THEN Max(Len(a) + stop, 0) ELSE Min(stop, Len(a))
    IN  SubSeq(a, 1, to)

\* MaxViT.__init__: dims = (dim_conv_stem, dim, 2 dim, ...), dim_conv_stem = dim;
\* the input dimension of stage ind (counted from 1)
LayerDimIn(dim, ind) == IF ind = 1 THEN dim ELSE LayerDim(dim, ind - 1)

\* the einops patterns of a block
ToBlockWindows   == "b d (x w1) (y w2) -> b x y w1 w2 d"

FromBlockWindows == "b x y w1 w2 d -> b d (x w1) (y w2)"

ToGridWindows    == "b d (w1 x) (w2 y) -> b x y w1 w2 d"

FromGridWindows  == "b x y w1 w2 d -> b d (w1 x) (w2 y)"

SubModule(kind, residual, dim_in, dim, downsample, pattern) ==
    [kind |-> kind, residual |-> residual, dim_in |-> dim_in, dim |-> dim,
     downsample |-> downsample, pattern |-> pattern]

\* MBConv(dim_in, dim_out, downsample = ...): stride 2 when downsampling,
\* wrapped in MBConvResidual if dim_in == dim_out and not downsample
MBConv(dim_in, dim_out, downsample) ==
    SubModule("MBConv", dim_in = dim_out /\ ~downsample, dim_in, dim_out, downsample, "")

\* the window a coordinate r in 0 .. side - 1 of one spatial axis falls in
\* under a pattern: '(x w1)' splits r = x * w + w1, '(w1 x)' splits
\* r = w1 * (side / w) + x; the window is x
AxisWindow(pattern, w, side, r) ==
    IF pattern = ToBlockWindows THEN r \div w
    ELSE IF pattern = ToGridWindows THEN r % (side \div w)
    ELSE 0 - 1

\* variant: each feed-forward is placed before its attention
BlockLayers_FeedForwardFirst(stage_dim_in, layer_dim, is_first) ==
    << MBConv(stage_dim_in, layer_dim, is_first),
       SubModule("Rearrange", FALSE, layer_dim, layer_dim, FALSE, ToBlockWindows),
       SubModule("FeedForward", TRUE, layer_dim, layer_dim, FALSE, ""),
       SubModule("Attention", TRUE, layer_dim, layer_dim, FALSE, ""),
       SubModule("Rearrange", FALSE, layer_dim, layer_dim, FALSE, FromBlockWindows),
       SubModule("Rearrange", FALSE, layer_dim, layer_dim, FALSE, ToGridWindows),
       SubModule("FeedForward", TRUE, layer_dim, layer_dim, FALSE, ""),
       SubModule("Attention", TRUE, layer_dim, layer_dim, FALSE, ""),
       SubModule("Rearrange", FALSE, layer_dim, layer_dim, FALSE, FromGridWindows) >>

\* MaxViT.__init__: block = nn.Sequential(MBConv(...), Rearrange, Residual(Attention),
\* Residual(FeedForward), Rearrange, Rearrange, Residual(Attention),
\* Residual(FeedForward), Rearrange)
BlockLayers(stage_dim_in, layer_dim, is_first) ==
    << MBConv(stage_dim_in, layer_dim, is_first),
       SubModule("Rearrange", FALSE, layer_dim, layer_dim, FALSE, ToBlockWindows),
       SubModule("Attention", TRUE, layer_dim, layer_dim, FALSE, ""),
       SubModule("FeedForward", TRUE, layer_dim, layer_dim, FALSE, ""),
       SubModule("Rearrange", FALSE, layer_dim, layer_dim, FALSE, FromBlockWindows),
       SubModule("Rearrange", FALSE, layer_dim, layer_dim, FALSE, ToGridWindows),
       SubModule("Attention", TRUE, layer_dim, layer_dim, FALSE, ""),
       SubModule("FeedForward", TRUE, layer_dim, layer_dim, FALSE, ""),
       SubModule("Rearrange", FALSE, layer_dim, layer_dim, FALSE, FromGridWindows) >>

\* MaxViT.__init__, the two loops: self.layers, one entry per block, with
\* the stage_dim_in that is appended to cond_hidden_dims
RECURSIVE VitLayersFrom(_, _, _, _)
VitLayersFrom(dim, depth, ind, stage_ind) ==
    IF ind > Len(depth) THEN <<>>
    ELSE IF stage_ind > depth[ind] THEN VitLayersFrom(dim, depth, ind + 1, 1)
    ELSE LET is_first     == stage_ind = 1
             layer_dim    == LayerDim(dim, ind)
             stage_dim_in == IF is_first THEN LayerDimIn(dim, ind) ELSE layer_dim
         IN  << [stage |-> ind, stage_ind |-> stage_ind, is_first |-> is_first,
                 stage_dim_in |-> stage_dim_in, layer_dim |-> layer_dim,
                 block |-> BlockLayers(stage_dim_in, layer_dim, is_first)] >>
             \o VitLayersFrom(dim, depth, ind, stage_ind + 1)

VitLayers(dim, depth) == VitLayersFrom(dim, depth, 1, 1)

\* MaxViT.cond_hidden_dims
CondHiddenDims(dim, depth) ==
    LET layers == VitLayers(dim, depth)
    IN  AsSeq([k \in 1..Len(layers) |-> layers[k].stage_dim_in])

Repeated(v, n) == AsSeq([i \in 1..n |-> v])

\* QRoboticTransformer.__init__: hidden_dims and hiddens_channel_first of the
\* conditioner
ConditionerHiddenDims(dim, vit_depth, depth) ==
    CondHiddenDims(dim, vit_depth)
    \o Repeated(LayerDim(dim, Len(vit_depth)), depth * 2)

ConditionerChannelFirst(dim, vit_depth, depth) ==
    Repeated(TRUE, Len(CondHiddenDims(dim, vit_depth))) \o Repeated(FALSE, depth * 2)

\* encode_state: repeat_batch
RepeatBatch(dim, vit_depth, depth, frames) ==
    Repeated(frames, Len(CondHiddenDims(dim, vit_depth))) \o Repeated(1, depth * 2)

\* self.conditioner(texts, ...): a tuple with one conditioning function for
\* each entry of hidden_dims, in their order
Conditioner(hidden_dims, channel_first, repeat_batch) ==
    AsSeq([i \in 1..Len(hidden_dims) |->
              [index |-> i, hidden_dim |-> hidden_dims[i],
               channel_first |-> channel_first[i], repeat_batch |-> repeat_batch[i]]])

\* None
NoCondFn == [index |-> 0, hidden_dim |-> 0, channel_first |-> FALSE, repeat_batch |-> 0]

\* next(cond_fns, None) on an iterator that has handed out pos entries
NextOr(cond_fns, pos) == IF pos < Len(cond_fns) THEN cond_fns[pos + 1] ELSE NoCondFn

\* torch.ones((frames, frames)).triu(1): the entries above the diagonal
Triu1(frames) == AsSeq([i \in 1..frames |-> AsSeq([j \in 1..frames |-> j - i >= 1])])

\* ~ m
NotMask(m) == AsSeq([i \in 1..Len(m) |-> AsSeq([j \in 1..Len(m[i]) |-> ~m[i][j]])])

\* repeat(m, 'i j -> (i r1) (j r2)', r1 = ..., r2 = ...)
RepeatMask(m, r1, r2) ==
    AsSeq([p \in 1..(Len(m) * r1) |->
        AsSeq([q \in 1..(Len(m[1]) * r2) |->
            m[((p - 1) \div r1) + 1][((q - 1) \div r2) + 1]])])

\* encode_state: attn_mask
AttnMask(frames, num_learned_tokens) ==
    RepeatMask(NotMask(Triu1(frames)), num_learned_tokens, num_learned_tokens)

\* variant: the mask is padded behind the real keys
PadMask_Behind(m, n, value) ==
    AsSeq([p \in 1..Len(m) |-> m[p] \o Repeated(value, n)])

\* F.pad(m, (n, 0), value = value): n entries in front of the last axis
PadMask(m, n, value) ==
    AsSeq([p \in 1..Len(m) |-> Repeated(value, n) \o m[p]])

\* a QRoboticTransformer(vit = dict(dim, depth = vit_depth), depth = depth,
\* token_learner_num_output_tokens = n) and a video of some frames
InitES ==
    /\ \E dim \in VitDims, vit_depth \in DepthTuples, depth \in 0..MaxDepth,
          frames \in 1..MaxFrames, n \in 1..MaxTokens :
          es = [pc |-> "start", dim |-> dim, vit_depth |-> vit_depth, depth |-> depth,
                frames |-> frames, num_learned_tokens |-> n,
                vit_cond_fns |-> <<>>, transformer_cond_fns |-> <<>>,
                vit_it |-> 0, transformer_it |-> 0,
                k |-> 0, layer |-> 0, channels |-> 0,
                given |-> <<>>, ran |-> <<>>,
                attn_mask |-> <<>>, attend_mask |-> <<>>]
    /\ QIdle
    /\ tl = TLIdle
    /\ rp = RPIdle
    /\ ctor = CtorIdle
    /\ bn = BNIdle

notES == <<qvars, tl, rp, ctor, bn>>

\* what a block or sub-block was handed as its conditioning function
Given(to, idx, cond_fn, channels) ==
    [to |-> to, idx |-> idx, fn |-> cond_fn, channels |-> channels]

\* encode_state up to the call of the vit: the conditioner is called and its
\* functions are split with cond_fns[:-(depth * 2)] and cond_fns[-(depth * 2):];
\* MaxViT.forward: conv_stem, cond_fns = iter(...)
ESConditioner ==
    /\ es.pc = "start"
    /\ LET cond_fns == Conditioner(ConditionerHiddenDims(es.dim, es.vit_depth, es.depth),
                                   ConditionerChannelFirst(es.dim, es.vit_depth, es.depth),
                                   RepeatBatch(es.dim, es.vit_depth, es.depth, es.frames))
       IN  es' = [es EXCEPT !.pc = "vit",
                            !.vit_cond_fns = PySliceTo(cond_fns, 0 - (es.depth * 2)),
                            !.transformer_cond_fns = PySliceFrom(cond_fns, 0 - (es.depth * 2)),
                            !.channels = es.dim]
    /\ UNCHANGED notES

\* MaxViT.forward, one pass of the loop over self.layers: the next
\* conditioning function, if there is one, is applied to x, then the block runs
ESVitBlock ==
    /\ es.pc = "vit"
    /\ es.k < Len(VitLayers(es.dim, es.vit_depth))
    /\ LET stage   == VitLayers(es.dim, es.vit_depth)[es.k + 1]
           cond_fn == NextOr(es.vit_cond_fns, es.vit_it)
       IN  IF cond_fn # NoCondFn /\ cond_fn.hidden_dim # es.channels
           THEN es' = [es EXCEPT !.pc = "RuntimeError"]
           ELSE es' = [es EXCEPT
                         !.k = @ + 1,
                         !.vit_it = Min(@ + 1, Len(es.vit_cond_fns)),
                         !.given = Append(@, Given("vit", es.k + 1, cond_fn, es.channels)),
                         !.ran = stage.block,
                         !.channels = stage.layer_dim]
    /\ UNCHANGED notES

\* encode_state after the vit: the token learner, the rearrange to
\* 'b (f n) c' and the attention mask; Transformer.forward: cond_fns = iter(...)
ESTokenLearner ==
    /\ es.pc = "vit"
    /\ es.k = Len(VitLayers(es.dim, es.vit_depth))
    /\ es' = [es EXCEPT !.pc = "transformer",
                        !.attn_mask = AttnMask(es.frames, es.num_learned_tokens)]
    /\ UNCHANGED notES

\* Transformer.forward, one pass of the loop: attn(x, attn_mask, cond_fn = next(...)),
\* which pads the mask for its memory key / values, then ff(x, cond_fn = next(...))
ESTransformerLayer ==
    /\ es.pc = "transformer"
    /\ es.layer < es.depth
    /\ LET attn_fn == NextOr(es.transformer_cond_fns, es.transformer_it)
           after   == Min(es.transformer_it + 1, Len(es.transformer_cond_fns))
           ff_fn   == NextOr(es.transformer_cond_fns, after)
       IN  es' = [es EXCEPT
                    !.layer = @ + 1,
                    !.transformer_it = Min(after + 1, Len(es.transformer_cond_fns)),
                    !.given = @ \o << Given("attn", es.layer + 1, attn_fn, es.channels),
                                      Given("ff", es.layer + 1, ff_fn, es.channels) >>,
                    !.attend_mask = PadMask(es.attn_mask, DefaultNumMemKV, TRUE)]
    /\ UNCHANGED notES

\* encode_state: return attended_tokens
ESReturn ==
    /\ es.pc = "transformer"
    /\ es.layer = es.depth
    /\ es' = [es EXCEPT !.pc = "done"]
    /\ UNCHANGED notES

NextES ==
    \/ ESConditioner
    \/ ESVitBlock
    \/ ESTokenLearner
    \/ ESTransformerLayer
    \/ ESReturn

SpecEncode == InitES /\ [][NextES]_vars

\* the conditioning functions the conditioner was built to return
AllCondFns ==
    Conditioner(ConditionerHiddenDims(es.dim, es.vit_depth, es.depth),
                ConditionerChannelFirst(es.dim, es.vit_depth, es.depth),
                RepeatBatch(es.dim, es.vit_depth, es.depth, es.frames))

\* C11: when encode_state returns, the k-th MaxViT block was handed the k-th
\* conditioning function, built for that block's input channel count, each
\* attention and feed-forward of the temporal transformer was handed the
\* next of the remaining 2 * depth functions in order, and every function
\* was handed to exactly one of them; for every depth >= 0.
C11_CondFnsMatchBlocks ==
    es.pc = "done" =>
        LET blocks == Len(VitLayers(es.dim, es.vit_depth))
        IN  /\ Len(es.given) = blocks + 2 * es.depth
            /\ Len(AllCondFns) = Len(es.given)
            /\ \A i \in 1..Len(es.given) :
                  /\ es.given[i].fn = AllCondFns[i]
                  /\ es.given[i].fn.hidden_dim = es.given[i].channels
                  /\ i <= blocks =>
                        /\ es.given[i].to = "vit" /\ es.given[i].idx = i
                        /\ es.given[i].fn.channel_first
                        /\ es.given[i].fn.repeat_batch = es.frames
                  /\ i > blocks =>
                        /\ es.given[i].to = (IF (i - blocks) % 2 = 1 THEN "attn" ELSE "ff")
                        /\ es.given[i].idx = ((i - blocks) + 1) \div 2
                        /\ ~es.given[i].fn.channel_first
                        /\ es.given[i].fn.repeat_batch = 1

\* the same statement for a temporal transformer of at least one layer
CondFnsMatchBlocksWhenDeep == es.depth >= 1 => C11_CondFnsMatchBlocks

\* with depth = 0 encode_state returns and no MaxViT block was conditioned
NoBlockConditioned ==
    /\ es.pc = "done"
    /\ es.depth = 0
    /\ \A i \in 1..Len(es.given) : es.given[i].fn = NoCondFn

\* the kinds of the sub-modules of a block that run between the Rearrange
\* into windows of a pattern and the Rearrange back
RECURSIVE IndexOfPattern(_, _, _)
IndexOfPattern(block, pattern, i) ==
    IF i > Len(block) THEN 0
    ELSE IF block[i].kind = "Rearrange" /\ block[i].pattern = pattern THEN i
    ELSE IndexOfPattern(block, pattern, i + 1)

InWindows(block, to, from) ==
    SubSeq(block, IndexOfPattern(block, to, 1) + 1, IndexOfPattern(block, from, 1) - 1)

\* windows of a pattern are squares of neighbouring pixels / are spread
\* over the image with a fixed stride, on an axis of two windows
IsBlockLike(pattern) ==
    \A w \in 1..MaxWindow : \A r1, r2 \in 0..(2 * w - 1) :
        AxisWindow(pattern, w, 2 * w, r1) = AxisWindow(pattern, w, 2 * w, r2)
            <=> (r1 \div w = r2 \div w)

IsGridLike(pattern) ==
    \A w \in 1..MaxWindow : \A r1, r2 \in 0..(2 * w - 1) :
        AxisWindow(pattern, w, 2 * w, r1) = AxisWindow(pattern, w, 2 * w, r2)
            <=> ((r1 - r2) % 2 = 0)

\* the block that has just run and what both statements of C12 say of it:
\* MBConv first, downsampling only in the first block of a stage, then the
\* block windows, then the grid windows
BlockJustRan == VitLayers(es.dim, es.vit_depth)[es.k]

BlockOrder(first, second) ==
    LET block == es.ran
        blk   == InWindows(block, ToBlockWindows, FromBlockWindows)
        grd   == InWindows(block, ToGridWindows, FromGridWindows)
    IN  /\ block[1].kind = "MBConv"
        /\ block[1].downsample = BlockJustRan.is_first
        /\ block[1].dim_in = BlockJustRan.stage_dim_in
        /\ \A i \in 2..Len(block) : block[i].kind # "MBConv" /\ ~block[i].downsample
        /\ IndexOfPattern(block, ToBlockWindows, 1) = 2
        /\ IndexOfPattern(block, FromBlockWindows, 1) + 1 = IndexOfPattern(block, ToGridWindows, 1)
        /\ IndexOfPattern(block, FromGridWindows, 1) = Len(block)
        /\ IsBlockLike(ToBlockWindows)
        /\ IsGridLike(ToGridWindows)
        /\ \A seg \in {blk, grd} :
              /\ Len(seg) = 2
              /\ seg[1].kind = first /\ seg[1].residual
              /\ seg[2].kind = second /\ seg[2].residual

\* C12 as stated: in every block that runs, MBConv (downsampling only in the
\* first block of a stage), then block-windowed attention, then
\* grid-windowed attention, each attention in a residual and preceded by its
\* own residual feed-forward.
C12_FeedForwardBeforeAttention ==
    (es.pc \in {"vit", "transformer", "done"} /\ es.k >= 1) =>
        BlockOrder("FeedForward", "Attention")

\* C12 amended: in every block that runs, MBConv (downsampling only in the
\* first block of a stage), then block-windowed attention, then
\* grid-windowed attention, each attention in a residual and followed by
\* its own residual feed-forward.
C12_AttentionBeforeFeedForward ==
    (es.pc \in {"vit", "transformer", "done"} /\ es.k >= 1) =>
        BlockOrder("Attention", "FeedForward")

\* a first block of a second stage has run after a later block of the first
C12_Witness ==
    /\ es.pc = "vit"
    /\ es.k >= 3
    /\ BlockJustRan.stage = 2
    /\ BlockJustRan.is_first
    /\ es.ran[1].downsample
    /\ es.ran[3].kind = "Attention"

\* rearrange(learned_tokens, 'b f c n -> b (f n) c'): the frame (from 0) of
\* the token at flattened position p (from 1)
FrameOfToken(p, n) == (p - 1) \div n

\* C16: the mask built in encode_state lets the token at position p attend
\* to the token at position q exactly when frame(q) <= frame(p), in the
\* frame-major layout of the tokens; the mask a TransformerAttention hands
\* to Attend, after its memory key / values were prepended, lets every
\* query attend to every memory slot and has the real keys' columns in
\* the same order behind them.
C16_FrameCausalMask ==
    es.pc \in {"transformer", "done"} =>
        LET n      == es.num_learned_tokens
            tokens == es.frames * n
        IN  /\ Len(es.attn_mask) = tokens
            /\ \A p \in 1..tokens :
                  /\ Len(es.attn_mask[p]) = tokens
                  /\ \A q \in 1..tokens :
                        es.attn_mask[p][q] <=> (FrameOfToken(q, n) <= FrameOfToken(p, n))
            /\ es.layer >= 1 =>
                  /\ Len(es.attend_mask) = tokens
                  /\ \A p \in 1..tokens :
                        /\ Len(es.attend_mask[p]) = DefaultNumMemKV + tokens
                        /\ \A m \in 1..DefaultNumMemKV : es.attend_mask[p][m]
                        /\ \A q \in 1..tokens :
                              es.attend_mask[p][DefaultNumMemKV + q] = es.attn_mask[p][q]

\* a layer has run on two or more frames of two or more tokens each: a
\* token may attend to the other tokens of its frame and not to a later
\* frame's
C16_Witness ==
    /\ es.pc = "done"
    /\ es.layer >= 1
    /\ es.frames >= 2
    /\ es.num_learned_tokens >= 2
    /\ es.attend_mask[1][DefaultNumMemKV + 2]
    /\ ~es.attend_mask[1][DefaultNumMemKV + es.num_learned_tokens + 1]

(***************************************************************************)
(* get_is_distributed and MaybeSyncBatchnorm2d                             *)
(***************************************************************************)
MaxWorld == 2
MaxCalls == 4

PyBool(b) == IF b THEN "True" ELSE "False"

\* exists(val) / default(val, d)
Default(val, d) == IF val # "None" THEN val ELSE d

\* the body of get_is_distributed:
\* dist.is_initialized() and dist.get_world_size() > 1
IsDistributedNow(initialized, world_size) == initialized /\ world_size > 1

\* variant: get_is_distributed without @cache
get_is_distributed_Uncached(cache, initialized, world_size) ==
    PyBool(IsDistributedNow(initialized, world_size))

\* @cache def get_is_distributed(): the body runs on the first call only,
\* later calls return what the first one returned
get_is_distributed(cache, initialized, world_size) ==
    IF cache = "empty" THEN PyBool(IsDistributedNow(initialized, world_size))
    ELSE cache

\* the process starts without a process group and with an empty cache
InitBN ==
    /\ bn = [pc |-> "started", initialized |-> FALSE, world_size |-> 0,
             cache |-> "empty", first |-> "none", calls |-> 0,
             arg |-> "None", now |-> FALSE, result |-> "none"]
    /\ QIdle
    /\ tl = TLIdle
    /\ rp = RPIdle
    /\ ctor = CtorIdle
    /\ es = ESIdle

notBN == <<qvars, tl, rp, ctor, es>>

\* torch.distributed.init_process_group, by the program around the module
InitProcessGroup(world_size) ==
    /\ ~bn.initialized
    /\ bn' = [bn EXCEPT !.initialized = TRUE, !.world_size = world_size]
    /\ UNCHANGED notBN

\* torch.distributed.destroy_process_group
DestroyProcessGroup ==
    /\ bn.initialized
    /\ bn' = [bn EXCEPT !.initialized = FALSE, !.world_size = 0]
    /\ UNCHANGED notBN

\* MaybeSyncBatchnorm2d(is_distributed): the default's argument
\* get_is_distributed() is evaluated whether or not is_distributed is given
MaybeSyncBatchnorm2d(is_distributed) ==
    /\ bn.calls < MaxCalls
    /\ LET answer == get_is_distributed(bn.cache, bn.initialized, bn.world_size)
           chosen == Default(is_distributed, answer)
       IN  bn' = [bn EXCEPT
                    !.pc = "called",
                    !.calls = @ + 1,
                    !.cache = answer,
                    !.first = IF @ = "none" THEN answer ELSE @,
                    !.arg = is_distributed,
                    !.now = IsDistributedNow(bn.initialized, bn.world_size),
                    !.result = IF chosen = "True" THEN "SyncBatchNorm" ELSE "BatchNorm2d"]
    /\ UNCHANGED notBN

NextBN ==
    \/ \E world_size \in 1..MaxWorld : InitProcessGroup(world_size)
    \/ DestroyProcessGroup
    \/ \E is_distributed \in {"None", "True", "False"} : MaybeSyncBatchnorm2d(is_distributed)

SpecDist == InitBN /\ [][NextBN]_vars

\* C13: after any sequence of process-group initialisations and calls, a
\* call without is_distributed has returned SyncBatchNorm exactly if the
\* process group was initialized with world size > 1 at the time of the
\* call, and a call with is_distributed has used the value given.
C13_FollowsProcessGroup ==
    bn.pc = "called" =>
        /\ bn.arg = "None" => (bn.result = "SyncBatchNorm" <=> bn.now)
        /\ bn.arg # "None" => (bn.result = "SyncBatchNorm" <=> bn.arg = "True")

\* what the calls return instead: the answer of the first call, whatever
\* the process group is by now
AnswersAsFirstCall ==
    bn.pc = "called" =>
        /\ bn.cache = bn.first
        /\ bn.arg = "None" => (bn.result = "SyncBatchNorm" <=> bn.first = "True")
        /\ bn.arg # "None" => (bn.result = "SyncBatchNorm" <=> bn.arg = "True")

\* a call without is_distributed in a process group of two returned the
\* plain batch norm
PlainInProcessGroup ==
    /\ bn.pc = "called"
    /\ bn.arg = "None"
    /\ bn.initialized /\ bn.world_size > 1
    /\ bn.now
    /\ bn.result = "BatchNorm2d"

=============================================================================
